---- MODULE Spec2Model ----
(***************************************************************************)
(* State-machine model of lfu_cache.models.LFUCache.                       *)
(*                                                                         *)
(* _priority_queue is a Python list of [key, access_count]; it is modelled *)
(* as a TLA+ sequence of <<key, access_count>>.  Python slot i is TLA+     *)
(* index i + 1.  _cache_entries is a dict key -> [queue_id, value]; it is  *)
(* modelled as a function key -> <<queue_id, value>> with queue_id kept    *)
(* 0-based exactly as the code stores it.                                  *)
(***************************************************************************)
EXTENDS Integers, Sequences, FiniteSets, TLC

VARIABLES cache_entries, priority_queue, limit, hits, misses, stored, last,
          lock, thread

vars == <<cache_entries, priority_queue, limit, hits, misses, stored, last,
          lock, thread>>

(* ---------------------------- bounds ----------------------------------- *)
MaxLimit == 2
MaxCount == 3
MaxHits == 2
MaxMisses == 4
MaxCalls == 2

Keys == {"0", "1", "2"}
Values == {"a", "b"}

\* The threads of the host program, and what they pass to the cache.
Threads == {"t1", "t2"}
ThreadKeys == {"0", "1"}
ThreadValues == {"a"}

(* ---------------------------- values ----------------------------------- *)
\* Python's None where a key or a value is expected.
NoneVal == "None"

\* A limit is None, an int, or (only as an argument) something else.
NoneLimit == [tag |-> "None"]
IntLimit(n) == [tag |-> "int", n |-> n]
StrLimit == [tag |-> "str", s |-> "whoops"]

ValidLimits == {NoneLimit} \cup {IntLimit(n) : n \in 0..MaxLimit}
LimitArgs == ValidLimits \cup {IntLimit(-1), StrLimit}

\* The condition of __init__ and of the limit setter for accepting a limit.
limit_ok(l) == l = NoneLimit \/ (l.tag = "int" /\ l.n >= 0)

Defaults == {NoneVal} \cup Values

\* Python's bool results, kept as strings so that every result is a string.
PyBool(b) == IF b THEN "True" ELSE "False"

(* ---------------------------- helpers ---------------------------------- *)
\* len(self)
len(pq) == Len(pq)

\* has_cache(key)
has_cache(ce, key) == key \in DOMAIN ce

\* The dict without one key (del d[key]).
del_key(ce, key) == [k \in (DOMAIN ce) \ {key} |-> ce[k]]

\* Mutant: the last slot is deleted instead of slot queue_id.
del_slot_Last(pq, queue_id) == SubSeq(pq, 1, Len(pq) - 1)

\* The list without slot queue_id (del l[queue_id]), queue_id 0-based.
del_slot(pq, queue_id) ==
    [j \in 1..(Len(pq) - 1) |-> IF j <= queue_id THEN pq[j] ELSE pq[j + 1]]

\* How many slots of pq[queue_id:] hold key k.
occurrences(pq, queue_id, k) ==
    Cardinality({j \in (queue_id + 1)..Len(pq) : pq[j][1] = k})

\* Mutant: the ids after the removed slot are not decremented.
shift_ids_NoShift(ce, pq, queue_id) == ce

\* for item in pq[queue_id:]: ce[item[0]][0] -= 1
shift_ids(ce, pq, queue_id) ==
    [k \in DOMAIN ce |-> <<ce[k][1] - occurrences(pq, queue_id, k), ce[k][2]>>]

\* _remove_by_id(queue_id): the new dict, the new list, the result, the key.
remove_by_id(ce, pq, queue_id) ==
    IF ~(len(pq) > queue_id /\ queue_id >= 0)
    THEN [ce |-> ce, pq |-> pq, ret |-> FALSE, key |-> NoneVal]
    ELSE LET key == pq[queue_id + 1][1]
             ce1 == del_key(ce, key)
             pq1 == del_slot(pq, queue_id)
         IN [ce |-> shift_ids(ce1, pq1, queue_id), pq |-> pq1,
             ret |-> TRUE, key |-> key]

\* Mutant: the comparison of the promotion loop is reversed.
may_swap_Less(pq, queue_id) ==
    queue_id > 0 /\ pq[queue_id + 1][2] < pq[queue_id][2]

\* Mutant: the promotion loop also passes neighbours with an equal count.
may_swap_Ties(pq, queue_id) ==
    queue_id > 0 /\ pq[queue_id + 1][2] >= pq[queue_id][2]

\* The test of the promotion loop: may slot queue_id pass slot queue_id - 1?
may_swap(pq, queue_id) ==
    queue_id > 0 /\ pq[queue_id + 1][2] > pq[queue_id][2]

\* The promotion loop of _increment_access_count, from slot queue_id.
RECURSIVE promote(_, _, _)
promote(ce, pq, queue_id) ==
    IF may_swap(pq, queue_id)
    THEN LET next_queue_id == queue_id - 1
             next_entry_key == pq[next_queue_id + 1][1]
             ce1 == [ce EXCEPT ![next_entry_key] = <<next_queue_id + 1, @[2]>>]
             pq1 == [pq EXCEPT ![queue_id + 1] = pq[next_queue_id + 1],
                               ![next_queue_id + 1] = pq[queue_id + 1]]
         IN promote(ce1, pq1, next_queue_id)
    ELSE [ce |-> ce, pq |-> pq, queue_id |-> queue_id]

\* Mutant: the key's own id is not written back after the promotion loop.
increment_access_count_StaleSlot(ce, pq, key) ==
    LET queue_id == ce[key][1]
        pq1 == [pq EXCEPT ![queue_id + 1] = <<@[1], @[2] + 1>>]
        r == promote(ce, pq1, queue_id)
    IN [ce |-> r.ce, pq |-> r.pq]

\* _increment_access_count(key): key must exist.
increment_access_count(ce, pq, key) ==
    LET queue_id == ce[key][1]
        pq1 == [pq EXCEPT ![queue_id + 1] = <<@[1], @[2] + 1>>]
        r == promote(ce, pq1, queue_id)
        value == r.ce[key][2]
    IN [ce |-> [r.ce EXCEPT ![key] = <<r.queue_id, value>>], pq |-> r.pq]

\* Mutant: the truncation loop pops the head of the queue (pop(0)).
RECURSIVE truncate_Head(_, _, _)
truncate_Head(ce, pq, excessive_entries) ==
    IF excessive_entries > 0
    THEN LET item == pq[1]
         IN truncate_Head(del_key(ce, item[1]), Tail(pq),
                          excessive_entries - 1)
    ELSE [ce |-> ce, pq |-> pq]

\* The truncation loop of the limit setter: pop the tail excessive times.
RECURSIVE truncate(_, _, _)
truncate(ce, pq, excessive_entries) ==
    IF excessive_entries > 0
    THEN LET item == pq[Len(pq)]
         IN truncate(del_key(ce, item[1]), SubSeq(pq, 1, Len(pq) - 1),
                     excessive_entries - 1)
    ELSE [ce |-> ce, pq |-> pq]

\* Ghost: the value given to the latest add that stored key k, for the keys
\* the index holds after the step.
stored_after(ce1, key, value) ==
    [k \in DOMAIN ce1 |->
        IF k = key /\ value # NoneVal THEN value
        ELSE IF k \in DOMAIN stored THEN stored[k] ELSE NoneVal]

Called(op, key, ret, evicted) ==
    [op |-> op, key |-> key, ret |-> ret, evicted |-> evicted]

(* ---------------------------- threads ---------------------------------- *)
\* RLock(): not owned.
Unlocked == [owner |-> NoneVal, count |-> 0]

\* A thread that is in no call of the cache.
IdleThread ==
    [pc |-> "idle", op |-> NoneVal, key |-> NoneVal, value |-> NoneVal,
     update |-> FALSE, arg |-> NoneLimit, found |-> FALSE, queue_id |-> 0,
     queue_len |-> 0, excessive_entries |-> 0, items |-> <<>>,
     raised |-> NoneVal, torn |-> NoneVal, calls |-> 0]

(* ---------------------------- state ------------------------------------ *)
\* LFUCache(limit) for every limit the constructor accepts.
Init ==
    /\ limit \in {l \in LimitArgs : limit_ok(l)}
    /\ cache_entries = <<>>
    /\ priority_queue = <<>>
    /\ hits = 0
    /\ misses = 0
    /\ stored = <<>>
    /\ last = Called("init", NoneVal, NoneVal, NoneVal)
    /\ lock = Unlocked
    /\ thread = [t \in Threads |-> IdleThread]

(* ---------------------------- operations ------------------------------- *)
\* The access count the queue holds for key (0 when the key is not queued).
access_count(pq, key) ==
    IF \E j \in 1..Len(pq) : pq[j][1] = key
    THEN pq[CHOOSE j \in 1..Len(pq) : pq[j][1] = key][2]
    ELSE 0

\* Mutant: the cache counts as full only above the limit.
is_full_Gt(l, pq) == l # NoneLimit /\ len(pq) > l.n

\* add: "self._limit is not None and queue_len >= self._limit"
is_full(l, pq) == l # NoneLimit /\ len(pq) >= l.n

\* Mutant: the first slot is evicted instead of the last one.
evict_slot_First(l) == 0

\* add: the slot handed to _remove_by_id when the cache is full.
evict_slot(l) == l.n - 1

\* Mutant: a new entry is queued with access count 0.
add_new_CountZero(ce, pq, l, key, value) ==
    LET r == IF l # NoneLimit /\ len(pq) >= l.n
             THEN remove_by_id(ce, pq, l.n - 1)
             ELSE [ce |-> ce, pq |-> pq, ret |-> FALSE, key |-> NoneVal]
        queue_len == IF l # NoneLimit /\ len(pq) >= l.n THEN len(pq) - 1 ELSE len(pq)
    IN [ce |-> [k \in (DOMAIN r.ce) \cup {key} |->
                   IF k = key THEN <<queue_len, value>> ELSE r.ce[k]],
        pq |-> Append(r.pq, <<key, 0>>),
        evicted |-> r.key]

\* Mutant: queue_len is not decremented after the eviction.
add_new_KeepsLen(ce, pq, l, key, value) ==
    LET r == IF l # NoneLimit /\ len(pq) >= l.n
             THEN remove_by_id(ce, pq, l.n - 1)
             ELSE [ce |-> ce, pq |-> pq, ret |-> FALSE, key |-> NoneVal]
        queue_len == len(pq)
    IN [ce |-> [k \in (DOMAIN r.ce) \cup {key} |->
                   IF k = key THEN <<queue_len, value>> ELSE r.ce[k]],
        pq |-> Append(r.pq, <<key, 1>>),
        evicted |-> r.key]

\* add, the branch of a key that is not cached: evict if full, then append.
add_new(ce, pq, l, key, value) ==
    LET r == IF is_full(l, pq)
             THEN remove_by_id(ce, pq, evict_slot(l))
             ELSE [ce |-> ce, pq |-> pq, ret |-> FALSE, key |-> NoneVal]
        queue_len == IF is_full(l, pq) THEN len(pq) - 1 ELSE len(pq)
    IN [ce |-> [k \in (DOMAIN r.ce) \cup {key} |->
                   IF k = key THEN <<queue_len, value>> ELSE r.ce[k]],
        pq |-> Append(r.pq, <<key, 1>>),
        evicted |-> r.key]

\* add, the branch of a cached key with update=True: promote, then overwrite.
add_update(ce, pq, key, value) ==
    LET r == increment_access_count(ce, pq, key)
    IN [ce |-> [r.ce EXCEPT ![key] = <<@[1], value>>], pq |-> r.pq]

\* add(key, value, update): first branch, the cache is blocked for writing.
AddBlocked(key, value, update) ==
    /\ limit = IntLimit(0)
    /\ UNCHANGED <<cache_entries, priority_queue, limit, hits, misses, stored>>
    /\ last' = Called("add", key, PyBool(FALSE), NoneVal)

\* Mutant: storing a new key does not count as a miss.
AddNew_NoMiss(key, value, update) ==
    /\ limit # IntLimit(0)
    /\ ~has_cache(cache_entries, key)
    /\ misses < MaxMisses
    /\ LET r == add_new(cache_entries, priority_queue, limit, key, value)
       IN /\ priority_queue' = r.pq
          /\ cache_entries' = r.ce
          /\ stored' = stored_after(r.ce, key, value)
          /\ last' = Called("add", key, PyBool(TRUE), r.evicted)
    /\ UNCHANGED <<limit, hits, misses>>

\* add(key, value, update): the key is not cached.
AddNew(key, value, update) ==
    /\ limit # IntLimit(0)
    /\ ~has_cache(cache_entries, key)
    /\ misses < MaxMisses
    /\ LET r == add_new(cache_entries, priority_queue, limit, key, value)
       IN /\ priority_queue' = r.pq
          /\ cache_entries' = r.ce
          /\ stored' = stored_after(r.ce, key, value)
          /\ last' = Called("add", key, PyBool(TRUE), r.evicted)
    /\ misses' = misses + 1
    /\ UNCHANGED <<limit, hits>>

\* Mutant: an updating add counts as a hit instead of a miss.
AddUpdate_CountsHit(key, value, update) ==
    /\ limit # IntLimit(0)
    /\ has_cache(cache_entries, key)
    /\ update
    /\ hits < MaxHits
    /\ access_count(priority_queue, key) < MaxCount
    /\ LET r == add_update(cache_entries, priority_queue, key, value)
       IN /\ priority_queue' = r.pq
          /\ cache_entries' = r.ce
          /\ stored' = stored_after(r.ce, key, value)
    /\ hits' = hits + 1
    /\ last' = Called("add", key, PyBool(TRUE), NoneVal)
    /\ UNCHANGED <<limit, misses>>

\* add(key, value, update=True): the key is cached.
AddUpdate(key, value, update) ==
    /\ limit # IntLimit(0)
    /\ has_cache(cache_entries, key)
    /\ update
    /\ misses < MaxMisses
    /\ access_count(priority_queue, key) < MaxCount
    /\ LET r == add_update(cache_entries, priority_queue, key, value)
       IN /\ priority_queue' = r.pq
          /\ cache_entries' = r.ce
          /\ stored' = stored_after(r.ce, key, value)
    /\ misses' = misses + 1
    /\ last' = Called("add", key, PyBool(TRUE), NoneVal)
    /\ UNCHANGED <<limit, hits>>

\* Mutant: update=False still overwrites the value of a cached key.
AddPresent_Overwrite(key, value, update) ==
    /\ limit # IntLimit(0)
    /\ has_cache(cache_entries, key)
    /\ ~update
    /\ cache_entries' = [cache_entries EXCEPT ![key] = <<@[1], value>>]
    /\ UNCHANGED <<priority_queue, limit, hits, misses, stored>>
    /\ last' = Called("add", key, PyBool(FALSE), NoneVal)

\* add(key, value, update=False): the key is cached.
AddPresent(key, value, update) ==
    /\ limit # IntLimit(0)
    /\ has_cache(cache_entries, key)
    /\ ~update
    /\ UNCHANGED <<cache_entries, priority_queue, limit, hits, misses, stored>>
    /\ last' = Called("add", key, PyBool(FALSE), NoneVal)

add(key, value, update) ==
    \/ AddBlocked(key, value, update)
    \/ AddNew(key, value, update)
    \/ AddUpdate(key, value, update)
    \/ AddPresent(key, value, update)

\* Mutant: a get of a key that is not cached counts as a hit.
GetAbsent_CountsHit(key, default) ==
    /\ ~has_cache(cache_entries, key)
    /\ hits < MaxHits
    /\ hits' = hits + 1
    /\ UNCHANGED <<cache_entries, priority_queue, limit, misses, stored>>
    /\ last' = Called("get", key, default, NoneVal)

\* get(key, default): the key is not cached.
GetAbsent(key, default) ==
    /\ ~has_cache(cache_entries, key)
    /\ UNCHANGED <<cache_entries, priority_queue, limit, hits, misses, stored>>
    /\ last' = Called("get", key, default, NoneVal)

\* get(key, default): the key is cached.
GetPresent(key, default) ==
    /\ has_cache(cache_entries, key)
    /\ hits < MaxHits
    /\ access_count(priority_queue, key) < MaxCount
    /\ hits' = hits + 1
    /\ LET r == increment_access_count(cache_entries, priority_queue, key)
       IN /\ priority_queue' = r.pq
          /\ cache_entries' = r.ce
          /\ stored' = stored_after(r.ce, key, NoneVal)
          /\ last' = Called("get", key, r.ce[key][2], NoneVal)
    /\ UNCHANGED <<limit, misses>>

get(key, default) ==
    \/ GetAbsent(key, default)
    \/ GetPresent(key, default)

\* remove(key)
remove(key) ==
    IF ~has_cache(cache_entries, key)
    THEN /\ UNCHANGED <<cache_entries, priority_queue, limit, hits, misses, stored>>
         /\ last' = Called("remove", key, PyBool(FALSE), NoneVal)
    ELSE LET queue_id == cache_entries[key][1]
             pq1 == del_slot(priority_queue, queue_id)
             ce1 == shift_ids(del_key(cache_entries, key), pq1, queue_id)
         IN /\ priority_queue' = pq1
            /\ cache_entries' = ce1
            /\ stored' = stored_after(ce1, key, NoneVal)
            /\ last' = Called("remove", key, PyBool(TRUE), NoneVal)
            /\ UNCHANGED <<limit, hits, misses>>

\* Mutant: clear also resets the counters.
clear_ResetsCounters ==
    /\ cache_entries' = <<>>
    /\ priority_queue' = <<>>
    /\ stored' = <<>>
    /\ hits' = 0
    /\ misses' = 0
    /\ last' = Called("clear", NoneVal, NoneVal, NoneVal)
    /\ UNCHANGED limit

\* clear()
clear ==
    /\ cache_entries' = <<>>
    /\ priority_queue' = <<>>
    /\ stored' = <<>>
    /\ last' = Called("clear", NoneVal, NoneVal, NoneVal)
    /\ UNCHANGED <<limit, hits, misses>>

\* Mutant: the limit setter stores the rejected value before it raises.
SetLimitRejected_StoresLimit(new_limit) ==
    /\ new_limit # NoneLimit
    /\ ~(new_limit.tag = "int" /\ new_limit.n >= 0)
    /\ limit' = new_limit
    /\ UNCHANGED <<cache_entries, priority_queue, hits, misses, stored>>
    /\ last' = Called("limit", NoneVal, "LFUCacheException", NoneVal)

\* limit = new_limit: the value is neither None nor an int >= 0.
SetLimitRejected(new_limit) ==
    /\ new_limit # NoneLimit
    /\ ~(new_limit.tag = "int" /\ new_limit.n >= 0)
    /\ UNCHANGED <<cache_entries, priority_queue, limit, hits, misses, stored>>
    /\ last' = Called("limit", NoneVal, "LFUCacheException", NoneVal)

\* Mutant: "self._limit = new_limit" sits inside "if new_limit is not None".
SetLimitAccepted_KeepsOnNone(new_limit) ==
    /\ ~(new_limit # NoneLimit /\ ~(new_limit.tag = "int" /\ new_limit.n >= 0))
    /\ LET r == IF new_limit # NoneLimit
                THEN truncate(cache_entries, priority_queue,
                              len(priority_queue) - new_limit.n)
                ELSE [ce |-> cache_entries, pq |-> priority_queue]
       IN /\ cache_entries' = r.ce
          /\ priority_queue' = r.pq
          /\ stored' = stored_after(r.ce, NoneVal, NoneVal)
    /\ limit' = IF new_limit # NoneLimit THEN new_limit ELSE limit
    /\ last' = Called("limit", NoneVal, NoneVal, NoneVal)
    /\ UNCHANGED <<hits, misses>>

\* limit = new_limit: truncate to an int limit, then store the limit.
SetLimitAccepted(new_limit) ==
    /\ ~(new_limit # NoneLimit /\ ~(new_limit.tag = "int" /\ new_limit.n >= 0))
    /\ LET r == IF new_limit # NoneLimit
                THEN truncate(cache_entries, priority_queue,
                              len(priority_queue) - new_limit.n)
                ELSE [ce |-> cache_entries, pq |-> priority_queue]
       IN /\ cache_entries' = r.ce
          /\ priority_queue' = r.pq
          /\ stored' = stored_after(r.ce, NoneVal, NoneVal)
    /\ limit' = new_limit
    /\ last' = Called("limit", NoneVal, NoneVal, NoneVal)
    /\ UNCHANGED <<hits, misses>>

\* limit = new_limit (the property setter)
set_limit(new_limit) ==
    \/ SetLimitRejected(new_limit)
    \/ SetLimitAccepted(new_limit)

\* One caller: every public operation runs from its call to its return.
Next ==
    \/ \E key \in Keys, value \in Values, update \in BOOLEAN :
          UNCHANGED <<lock, thread>> /\ add(key, value, update)
    \/ \E key \in Keys, default \in Defaults :
          UNCHANGED <<lock, thread>> /\ get(key, default)
    \/ \E key \in Keys : UNCHANGED <<lock, thread>> /\ remove(key)
    \/ UNCHANGED <<lock, thread>> /\ clear
    \/ \E new_limit \in LimitArgs :
          UNCHANGED <<lock, thread>> /\ set_limit(new_limit)

Spec == Init /\ [][Next]_vars

(* ---------------------------- threads: the lock ------------------------ *)
\* Do the index and the queue agree (same size, every id points at its key)?
agree(ce, pq) ==
    /\ Cardinality(DOMAIN ce) = Len(pq)
    /\ \A j \in 1..Len(pq) :
          /\ pq[j][1] \in DOMAIN ce
          /\ ce[pq[j][1]][1] = j - 1

\* Mutant: the lock lets a second thread in.
can_acquire_Always(l, t) == TRUE

\* Mutant: a plain Lock, which blocks its own holder.
can_acquire_NotReentrant(l, t) == l.count = 0

\* RLock.acquire() returns at once when the lock is free or owned by t.
can_acquire(l, t) == l.count = 0 \/ l.owner = t

\* RLock.acquire(), taken by t.
acquired(l, t) == [owner |-> t, count |-> l.count + 1]

\* RLock.release(): the end of a "with self._lock" block.
released(l) ==
    IF l.count = 1 THEN Unlocked ELSE [l EXCEPT !.count = l.count - 1]

\* The thread record of a call that has just been made.
Calling(t, op, key, value, update, arg, pc) ==
    [IdleThread EXCEPT !.pc = pc, !.op = op, !.key = key, !.value = value,
                       !.update = update, !.arg = arg,
                       !.calls = thread[t].calls + 1]

\* What an operation has seen of the index and the queue: its own name when
\* they disagreed, None otherwise.
seen(op, ce, pq) == IF agree(ce, pq) THEN NoneVal ELSE op

\* The thread record after its call has returned or raised.
Returned(me) ==
    [IdleThread EXCEPT !.raised = me.raised, !.torn = me.torn,
                       !.calls = me.calls]

\* Thread t moves to record r and nothing else changes.
Goes(t, r) ==
    /\ thread' = [thread EXCEPT ![t] = r]
    /\ UNCHANGED <<cache_entries, priority_queue, limit, hits, misses,
                   stored, last, lock>>

\* Thread t moves to record r and the lock becomes l.
GoesLock(t, r, l) ==
    /\ thread' = [thread EXCEPT ![t] = r]
    /\ lock' = l
    /\ UNCHANGED <<cache_entries, priority_queue, limit, hits, misses,
                   stored, last>>

\* Thread t moves to record r, the index becomes ce and the queue pq.
GoesData(t, r, ce, pq) ==
    /\ thread' = [thread EXCEPT ![t] = r]
    /\ cache_entries' = ce
    /\ priority_queue' = pq
    /\ UNCHANGED <<limit, hits, misses, stored, last, lock>>

(* ---------------------------- threads: the calls ----------------------- *)
InvokeAdd(t) ==
    /\ thread[t].pc = "idle" /\ thread[t].calls < MaxCalls
    /\ \E key \in ThreadKeys, value \in ThreadValues, update \in BOOLEAN :
          Goes(t, Calling(t, "add", key, value, update, NoneLimit, "lock"))

InvokeGet(t) ==
    /\ thread[t].pc = "idle" /\ thread[t].calls < MaxCalls
    /\ \E key \in ThreadKeys :
          Goes(t, Calling(t, "get", key, NoneVal, FALSE, NoneLimit, "lock"))

InvokeRemove(t) ==
    /\ thread[t].pc = "idle" /\ thread[t].calls < MaxCalls
    /\ \E key \in ThreadKeys :
          Goes(t, Calling(t, "remove", key, NoneVal, FALSE, NoneLimit, "lock"))

InvokeHasCache(t) ==
    /\ thread[t].pc = "idle" /\ thread[t].calls < MaxCalls
    /\ \E key \in ThreadKeys :
          Goes(t, Calling(t, "has_cache", key, NoneVal, FALSE, NoneLimit, "has_lock"))

InvokeClear(t) ==
    /\ thread[t].pc = "idle" /\ thread[t].calls < MaxCalls
    /\ Goes(t, Calling(t, "clear", NoneVal, NoneVal, FALSE, NoneLimit, "lock"))

InvokeLimit(t) ==
    /\ thread[t].pc = "idle" /\ thread[t].calls < MaxCalls
    /\ \E new_limit \in LimitArgs :
          Goes(t, Calling(t, "limit", NoneVal, NoneVal, FALSE, new_limit, "lock"))

InvokeLen(t) ==
    /\ thread[t].pc = "idle" /\ thread[t].calls < MaxCalls
    /\ Goes(t, Calling(t, "len", NoneVal, NoneVal, FALSE, NoneLimit, "len"))

InvokeRetrieve(t) ==
    /\ thread[t].pc = "idle" /\ thread[t].calls < MaxCalls
    /\ Goes(t, Calling(t, "retrieve", NoneVal, NoneVal, FALSE, NoneLimit, "slice"))

(* ---------------------------- threads: the steps ----------------------- *)
\* "with self._lock:" at the top of add, get, remove, clear and the setter.
Lock(t) ==
    /\ thread[t].pc = "lock"
    /\ can_acquire(lock, t)
    /\ GoesLock(t, [thread[t] EXCEPT
            !.torn = seen(thread[t].op, cache_entries, priority_queue),
            !.pc = CASE thread[t].op = "add" -> "add_limit"
                     [] thread[t].op = "clear" -> "clear_index"
                     [] thread[t].op = "limit" -> "limit_check"
                     [] OTHER -> "has_lock"],
          acquired(lock, t))

\* has_cache: "with self._lock:"
HasLock(t) ==
    /\ thread[t].pc = "has_lock"
    /\ can_acquire(lock, t)
    /\ GoesLock(t, [thread[t] EXCEPT
            !.torn = IF lock.count = 0
                     THEN seen(thread[t].op, cache_entries, priority_queue)
                     ELSE @,
            !.pc = "has_return"],
          acquired(lock, t))

\* has_cache: "return key in self._cache_entries", and where its caller goes.
HasReturn(t) ==
    /\ thread[t].pc = "has_return"
    /\ LET me == thread[t]
           found == has_cache(cache_entries, me.key)
       IN GoesLock(t,
            IF me.op = "has_cache" THEN Returned(me)
            ELSE [me EXCEPT !.found = found,
                            !.pc = CASE me.op = "add" /\ ~found -> "add_full"
                                     [] me.op = "add" /\ found /\ me.update -> "inc_lock"
                                     [] me.op = "get" /\ found -> "get_hit"
                                     [] me.op = "remove" /\ found -> "remove_queue"
                                     [] OTHER -> "unlock"],
            released(lock))

\* add: "if self._limit == 0: return False"
AddLimit(t) ==
    /\ thread[t].pc = "add_limit"
    /\ Goes(t, [thread[t] EXCEPT
            !.pc = IF limit = IntLimit(0) THEN "unlock" ELSE "has_lock"])

\* add: queue_len and the capacity test.
AddFull(t) ==
    /\ thread[t].pc = "add_full"
    /\ Goes(t, IF is_full(limit, priority_queue)
               THEN [thread[t] EXCEPT !.queue_len = len(priority_queue) - 1,
                                      !.queue_id = evict_slot(limit),
                                      !.pc = "rid_lock"]
               ELSE [thread[t] EXCEPT !.queue_len = len(priority_queue),
                                      !.pc = "add_append"])

\* _remove_by_id: "with self._lock:"
RidLock(t) ==
    /\ thread[t].pc = "rid_lock"
    /\ can_acquire(lock, t)
    /\ GoesLock(t, [thread[t] EXCEPT !.pc = "rid_index"], acquired(lock, t))

\* _remove_by_id: the range test, then "del self._cache_entries[key]".
RidIndex(t) ==
    /\ thread[t].pc = "rid_index"
    /\ LET queue_id == thread[t].queue_id
       IN IF ~(len(priority_queue) > queue_id /\ queue_id >= 0)
          THEN Goes(t, [thread[t] EXCEPT !.pc = "rid_unlock"])
          ELSE GoesData(t, [thread[t] EXCEPT !.pc = "rid_queue"],
                        del_key(cache_entries, priority_queue[queue_id + 1][1]),
                        priority_queue)

\* _remove_by_id: "del self._priority_queue[queue_id]"
RidQueue(t) ==
    /\ thread[t].pc = "rid_queue"
    /\ GoesData(t, [thread[t] EXCEPT !.pc = "rid_shift"], cache_entries,
                del_slot(priority_queue, thread[t].queue_id))

\* _remove_by_id: the re-indexing loop.
RidShift(t) ==
    /\ thread[t].pc = "rid_shift"
    /\ GoesData(t, [thread[t] EXCEPT !.pc = "rid_unlock"],
                shift_ids(cache_entries, priority_queue, thread[t].queue_id),
                priority_queue)

\* _remove_by_id: the end of its "with" block.
RidUnlock(t) ==
    /\ thread[t].pc = "rid_unlock"
    /\ GoesLock(t, [thread[t] EXCEPT !.pc = "add_append"], released(lock))

\* add: "self._priority_queue.append([key, 1])"
AddAppend(t) ==
    /\ thread[t].pc = "add_append"
    /\ GoesData(t, [thread[t] EXCEPT !.pc = "add_index"], cache_entries,
                Append(priority_queue, <<thread[t].key, 1>>))

\* add: "self._cache_entries[key] = [queue_len, value]"
AddIndex(t) ==
    /\ thread[t].pc = "add_index"
    /\ LET me == thread[t]
       IN GoesData(t, [me EXCEPT !.pc = "add_miss"],
                   [k \in (DOMAIN cache_entries) \cup {me.key} |->
                       IF k = me.key THEN <<me.queue_len, me.value>>
                       ELSE cache_entries[k]],
                   priority_queue)

\* add: "self._misses += 1"
AddMiss(t) ==
    /\ thread[t].pc = "add_miss"
    /\ thread' = [thread EXCEPT ![t] = [thread[t] EXCEPT !.pc = "unlock"]]
    /\ misses' = misses + 1
    /\ UNCHANGED <<cache_entries, priority_queue, limit, hits, stored, last, lock>>

\* _increment_access_count: "with self._lock:"
IncLock(t) ==
    /\ thread[t].pc = "inc_lock"
    /\ can_acquire(lock, t)
    /\ GoesLock(t, [thread[t] EXCEPT !.pc = "inc_count"], acquired(lock, t))

\* _increment_access_count: read queue_id, "self._priority_queue[queue_id][1] += 1"
IncCount(t) ==
    /\ thread[t].pc = "inc_count"
    /\ LET queue_id == cache_entries[thread[t].key][1]
       IN GoesData(t, [thread[t] EXCEPT !.queue_id = queue_id, !.pc = "inc_loop"],
                   cache_entries,
                   [priority_queue EXCEPT ![queue_id + 1] = <<@[1], @[2] + 1>>])

\* _increment_access_count: the loop test, then the id of the passed entry.
IncLoop(t) ==
    /\ thread[t].pc = "inc_loop"
    /\ LET queue_id == thread[t].queue_id
       IN IF may_swap(priority_queue, queue_id)
          THEN GoesData(t, [thread[t] EXCEPT !.pc = "inc_swap"],
                        [cache_entries EXCEPT
                            ![priority_queue[queue_id][1]] = <<queue_id, @[2]>>],
                        priority_queue)
          ELSE Goes(t, [thread[t] EXCEPT !.pc = "inc_index"])

\* _increment_access_count: the swap, then one slot up.
IncSwap(t) ==
    /\ thread[t].pc = "inc_swap"
    /\ LET queue_id == thread[t].queue_id
       IN GoesData(t, [thread[t] EXCEPT !.queue_id = queue_id - 1, !.pc = "inc_loop"],
                   cache_entries,
                   [priority_queue EXCEPT ![queue_id + 1] = priority_queue[queue_id],
                                          ![queue_id] = priority_queue[queue_id + 1]])

\* _increment_access_count: "self._cache_entries[key] = [queue_id, value]"
IncIndex(t) ==
    /\ thread[t].pc = "inc_index"
    /\ GoesData(t, [thread[t] EXCEPT !.pc = "inc_unlock"],
                [cache_entries EXCEPT ![thread[t].key] = <<thread[t].queue_id, @[2]>>],
                priority_queue)

\* _increment_access_count: the end of its "with" block.
IncUnlock(t) ==
    /\ thread[t].pc = "inc_unlock"
    /\ GoesLock(t, [thread[t] EXCEPT
            !.pc = IF thread[t].op = "add" THEN "add_value" ELSE "get_return"],
          released(lock))

\* add, update branch: "self._cache_entries[key][1] = value"
AddValue(t) ==
    /\ thread[t].pc = "add_value"
    /\ GoesData(t, [thread[t] EXCEPT !.pc = "add_miss"],
                [cache_entries EXCEPT ![thread[t].key] = <<@[1], thread[t].value>>],
                priority_queue)

\* get: "self._hits += 1"
GetHit(t) ==
    /\ thread[t].pc = "get_hit"
    /\ thread' = [thread EXCEPT ![t] = [thread[t] EXCEPT !.pc = "inc_lock"]]
    /\ hits' = hits + 1
    /\ UNCHANGED <<cache_entries, priority_queue, limit, misses, stored, last, lock>>

\* get: "return self._cache_entries[key][1]"
GetReturn(t) ==
    /\ thread[t].pc = "get_return"
    /\ Goes(t, [thread[t] EXCEPT
            !.value = cache_entries[thread[t].key][2], !.pc = "unlock"])

\* remove: read queue_id, "del self._priority_queue[queue_id]"
RemoveQueue(t) ==
    /\ thread[t].pc = "remove_queue"
    /\ LET queue_id == cache_entries[thread[t].key][1]
       IN GoesData(t, [thread[t] EXCEPT !.queue_id = queue_id, !.pc = "remove_index"],
                   cache_entries, del_slot(priority_queue, queue_id))

\* remove: "del self._cache_entries[key]"
RemoveIndex(t) ==
    /\ thread[t].pc = "remove_index"
    /\ GoesData(t, [thread[t] EXCEPT !.pc = "remove_shift"],
                del_key(cache_entries, thread[t].key), priority_queue)

\* remove: the re-indexing loop.
RemoveShift(t) ==
    /\ thread[t].pc = "remove_shift"
    /\ GoesData(t, [thread[t] EXCEPT !.pc = "unlock"],
                shift_ids(cache_entries, priority_queue, thread[t].queue_id),
                priority_queue)

\* clear: "self._cache_entries.clear()"
ClearIndex(t) ==
    /\ thread[t].pc = "clear_index"
    /\ GoesData(t, [thread[t] EXCEPT !.pc = "clear_queue"], <<>>, priority_queue)

\* clear: "self._priority_queue.clear()"
ClearQueue(t) ==
    /\ thread[t].pc = "clear_queue"
    /\ GoesData(t, [thread[t] EXCEPT !.pc = "unlock"], cache_entries, <<>>)

\* limit setter: the checks of new_limit and excessive_entries.
LimitCheck(t) ==
    /\ thread[t].pc = "limit_check"
    /\ LET new_limit == thread[t].arg
       IN Goes(t, IF new_limit = NoneLimit
                  THEN [thread[t] EXCEPT !.pc = "limit_set"]
                  ELSE IF ~(new_limit.tag = "int" /\ new_limit.n >= 0)
                  THEN [thread[t] EXCEPT !.raised = "LFUCacheException",
                                         !.pc = "unlock"]
                  ELSE [thread[t] EXCEPT
                           !.excessive_entries = len(priority_queue) - new_limit.n,
                           !.pc = "limit_loop"])

\* limit setter: the loop test, then "item = self._priority_queue.pop()"
LimitLoop(t) ==
    /\ thread[t].pc = "limit_loop"
    /\ IF thread[t].excessive_entries > 0
       THEN GoesData(t, [thread[t] EXCEPT
                            !.items = <<priority_queue[Len(priority_queue)][1]>>,
                            !.pc = "limit_index"],
                     cache_entries,
                     SubSeq(priority_queue, 1, Len(priority_queue) - 1))
       ELSE Goes(t, [thread[t] EXCEPT !.pc = "limit_set"])

\* limit setter: "del self._cache_entries[item[0]]", "excessive_entries -= 1"
LimitIndex(t) ==
    /\ thread[t].pc = "limit_index"
    /\ GoesData(t, [thread[t] EXCEPT !.items = <<>>,
                                     !.excessive_entries = @ - 1,
                                     !.pc = "limit_loop"],
                del_key(cache_entries, thread[t].items[1]), priority_queue)

\* limit setter: "self._limit = new_limit"
LimitSet(t) ==
    /\ thread[t].pc = "limit_set"
    /\ thread' = [thread EXCEPT ![t] = [thread[t] EXCEPT !.pc = "unlock"]]
    /\ limit' = thread[t].arg
    /\ UNCHANGED <<cache_entries, priority_queue, hits, misses, stored, last, lock>>

\* The end of the "with" block of add, get, remove, clear and the setter,
\* by a return or by the exception of the setter.
Unlock(t) ==
    /\ thread[t].pc = "unlock"
    /\ GoesLock(t, Returned(thread[t]), released(lock))

\* __len__: "return len(self._priority_queue)", no lock taken.
LenRead(t) ==
    /\ thread[t].pc = "len"
    /\ Goes(t, Returned([thread[t] EXCEPT
                            !.torn = seen("len", cache_entries, priority_queue)]))

\* retrieve: "self._priority_queue[start:end]", no lock taken.
Slice(t) ==
    /\ thread[t].pc = "slice"
    /\ Goes(t, [thread[t] EXCEPT
            !.items = [j \in 1..Len(priority_queue) |-> priority_queue[j][1]],
            !.torn = seen("retrieve", cache_entries, priority_queue),
            !.pc = "item"])

\* retrieve: one item of the comprehension, "self._cache_entries[key][1]".
Item(t) ==
    /\ thread[t].pc = "item"
    /\ LET me == thread[t]
       IN Goes(t, IF me.items = <<>> THEN Returned(me)
                  ELSE IF Head(me.items) \notin DOMAIN cache_entries
                  THEN Returned([me EXCEPT !.raised = "KeyError"])
                  ELSE [me EXCEPT
                           !.items = Tail(me.items),
                           !.torn = IF @ = NoneVal
                                    THEN seen("retrieve", cache_entries,
                                              priority_queue)
                                    ELSE @])

\* A thread calls the cache.
Invoke(t) ==
    \/ InvokeAdd(t) \/ InvokeGet(t) \/ InvokeRemove(t) \/ InvokeHasCache(t)
    \/ InvokeClear(t) \/ InvokeLimit(t) \/ InvokeLen(t) \/ InvokeRetrieve(t)

\* A thread runs one step of the call it is in.
Run(t) ==
    \/ Lock(t) \/ HasLock(t) \/ HasReturn(t)
    \/ AddLimit(t) \/ AddFull(t) \/ RidLock(t) \/ RidIndex(t) \/ RidQueue(t)
    \/ RidShift(t) \/ RidUnlock(t) \/ AddAppend(t) \/ AddIndex(t) \/ AddMiss(t)
    \/ IncLock(t) \/ IncCount(t) \/ IncLoop(t) \/ IncSwap(t) \/ IncIndex(t)
    \/ IncUnlock(t) \/ AddValue(t) \/ GetHit(t) \/ GetReturn(t)
    \/ RemoveQueue(t) \/ RemoveIndex(t) \/ RemoveShift(t)
    \/ ClearIndex(t) \/ ClearQueue(t)
    \/ LimitCheck(t) \/ LimitLoop(t) \/ LimitIndex(t) \/ LimitSet(t)
    \/ Unlock(t) \/ LenRead(t) \/ Slice(t) \/ Item(t)

ThreadNext == \E t \in Threads : Invoke(t) \/ Run(t)

\* Threads calling one cache, statement by statement.
SpecThreads == Init /\ [][ThreadNext]_vars

\* The same, with every thread that can run a step eventually running one.
SpecThreadsFair == SpecThreads /\ \A t \in Threads : WF_vars(Run(t))

(* ---------------------------- claims ----------------------------------- *)
\* The keys the priority queue holds.
KeysOf(pq) == {pq[j][1] : j \in 1..Len(pq)}

\* The 1-based position of key k in pq (k is queued exactly once).
PosOf(pq, k) == CHOOSE j \in 1..Len(pq) : pq[j][1] = k

\* The queue without the entry of key k.
Without(pq, k) == SelectSeq(pq, LAMBDA e : e[1] # k)

\* How many contiguous left neighbours of position i have a count below c.
RunLen(pq, i, c) ==
    Cardinality({j \in 1..(i - 1) : \A m \in j..(i - 1) : pq[m][2] < c})

\* The promotion rule: from (ce0, pq0) to (ce1, pq1), key k gains one access
\* and passes exactly the contiguous run of left neighbours with a count
\* strictly below its new count; the other entries keep their count and
\* their relative order, and every index id follows its entry.
Promoted(ce0, pq0, ce1, pq1, k) ==
    LET i == PosOf(pq0, k)
        c == pq0[i][2] + 1
        n == i - RunLen(pq0, i, c)
    IN /\ Len(pq1) = Len(pq0)
       /\ pq1[n] = <<k, c>>
       /\ Without(pq1, k) = Without(pq0, k)
       /\ DOMAIN ce1 = DOMAIN ce0
       /\ \A j \in 1..Len(pq1) : ce1[pq1[j][1]][1] = j - 1

\* Every value of the index except the one of key k is kept.
ValuesKept(ce0, ce1, k) ==
    \A x \in (DOMAIN ce0) \ {k} : x \in DOMAIN ce1 /\ ce1[x][2] = ce0[x][2]

\* C1: in every reachable state the index and the priority queue have the
\* same number of entries, no key is queued twice, and the slot the index
\* stores for a key holds that key.
C1_Bijection ==
    /\ Cardinality(DOMAIN cache_entries) = Len(priority_queue)
    /\ \A i, j \in 1..Len(priority_queue) :
          i # j => priority_queue[i][1] # priority_queue[j][1]
    /\ \A k \in DOMAIN cache_entries :
          /\ cache_entries[k][1] \in 0..(Len(priority_queue) - 1)
          /\ priority_queue[cache_entries[k][1] + 1][1] = k

\* C1 witness: a key was removed from the head of a queue whose remaining
\* two entries had to be re-indexed.
C1_Witness ==
    /\ last.op = "remove" /\ last.ret = "True"
    /\ Len(priority_queue) = 2
    /\ priority_queue[1][2] > priority_queue[2][2]

\* C2: in every reachable state the priority queue is sorted non-increasing
\* by access count.
C2_Sorted ==
    \A j \in 1..(Len(priority_queue) - 1) :
        priority_queue[j][2] >= priority_queue[j + 1][2]

\* C2 witness: a get promoted its key to the head of a three-entry queue.
C2_Witness ==
    /\ last.op = "get" /\ last.ret \in Values
    /\ Len(priority_queue) = 3
    /\ priority_queue[1][1] = last.key
    /\ priority_queue[1][2] > priority_queue[2][2]

\* C3: whenever the limit is an integer the cache holds at most limit
\* entries, and while the limit is 0 every add returns False and stores
\* nothing, whatever the key and the update flag.
C3_Capacity ==
    /\ [](limit # NoneLimit => Len(priority_queue) <= limit.n)
    /\ [](limit = IntLimit(0) => cache_entries = <<>> /\ priority_queue = <<>>)
    /\ [][\A k \in Keys, v \in Values, u \in BOOLEAN :
            (limit = IntLimit(0) /\ add(k, v, u)) =>
                /\ last'.ret = "False"
                /\ UNCHANGED <<cache_entries, priority_queue, limit, hits, misses>>]_vars

\* C3 witness: after entries had been stored, the limit was set to 0 and an
\* add was refused on the emptied cache.
C3_Witness ==
    /\ limit = IntLimit(0)
    /\ last.op = "add" /\ last.ret = "False"
    /\ misses >= 2
    /\ priority_queue = <<>>

\* C4: a get never drops an entry, and an add drops one only when its key
\* is not cached, the limit is an integer >= 1 and the cache holds exactly
\* limit entries; it then drops exactly one entry, whose access count is at
\* most the count of every entry that was cached before and still is.
C4_EvictsLeastUsed ==
    [][(last'.op \in {"add", "get"}
            /\ KeysOf(priority_queue) \ KeysOf(priority_queue') # {}) =>
        LET gone == KeysOf(priority_queue) \ KeysOf(priority_queue')
            kept == KeysOf(priority_queue) \cap KeysOf(priority_queue')
        IN /\ last'.op = "add"
           /\ last'.key \notin DOMAIN cache_entries
           /\ limit # NoneLimit
           /\ limit.n >= 1
           /\ Len(priority_queue) = limit.n
           /\ Cardinality(gone) = 1
           /\ gone = {last'.evicted}
           /\ gone = {priority_queue[limit.n][1]}
           /\ \A g \in gone, s \in kept :
                 access_count(priority_queue, g) <= access_count(priority_queue, s)]_vars

\* C4 witness: an add evicted an entry from a queue whose head has been
\* accessed more often than the evicted entry could have been.
C4_Witness ==
    /\ last.op = "add" /\ last.ret = "True" /\ last.evicted # NoneVal
    /\ Len(priority_queue) = 2
    /\ priority_queue[1][2] = MaxCount

\* C5: add of a key that is not cached to a cache holding L = limit >= 1
\* entries returns True, keeps the length L, puts the key in the last slot
\* with count 1 and the given value, keeps the first L - 1 entries (slots,
\* keys, values, counts), and drops the entry of the last slot.
C5_AddOnFull ==
    [][\A k \in Keys, v \in Values, u \in BOOLEAN :
        (/\ limit # NoneLimit
         /\ limit.n >= 1
         /\ Len(priority_queue) = limit.n
         /\ k \notin DOMAIN cache_entries
         /\ add(k, v, u)) =>
            LET L == limit.n
            IN /\ last'.ret = "True"
               /\ Len(priority_queue') = L
               /\ priority_queue'[L] = <<k, 1>>
               /\ cache_entries'[k] = <<L - 1, v>>
               /\ \A j \in 1..(L - 1) :
                     /\ priority_queue'[j] = priority_queue[j]
                     /\ cache_entries'[priority_queue[j][1]]
                            = cache_entries[priority_queue[j][1]]
               /\ priority_queue[L][1] \notin DOMAIN cache_entries'
               /\ priority_queue[L][1] \notin KeysOf(priority_queue')
               /\ DOMAIN cache_entries' = KeysOf(priority_queue')]_vars

\* C5 witness: an add to a full cache of limit 2 replaced the last entry.
C5_Witness ==
    /\ last.op = "add" /\ last.ret = "True" /\ last.evicted # NoneVal
    /\ limit = IntLimit(2)
    /\ Len(priority_queue) = 2
    /\ priority_queue[2] = <<last.key, 1>>

\* C6: get of a cached key returns the value most recently stored for it,
\* adds exactly 1 to its access count and promotes it by the promotion rule
\* (ties do not swap); every other entry keeps its count, its value and its
\* relative order.  From keys "0","1","2" all at count 1, get("2") gives the
\* order "2","0","1" with "2" at count 2.
C6_GetPresent ==
    [][\A k \in Keys, d \in Defaults :
        (k \in DOMAIN cache_entries /\ get(k, d)) =>
            /\ last'.ret = stored[k]
            /\ last'.ret = cache_entries'[k][2]
            /\ cache_entries'[k][2] = cache_entries[k][2]
            /\ Promoted(cache_entries, priority_queue,
                        cache_entries', priority_queue', k)
            /\ ValuesKept(cache_entries, cache_entries', k)
            /\ (priority_queue = <<(<<"0", 1>>), (<<"1", 1>>), (<<"2", 1>>)>> /\ k = "2")
                  => priority_queue' = <<(<<"2", 2>>), (<<"0", 1>>), (<<"1", 1>>)>>]_vars

\* C6 witness: a get stopped its key behind a neighbour with an equal count
\* after passing a neighbour with a smaller one.
C6_Witness ==
    /\ last.op = "get" /\ last.ret \in Values
    /\ Len(priority_queue) = 3
    /\ priority_queue[2][1] = last.key
    /\ priority_queue[1][2] = priority_queue[2][2]
    /\ priority_queue[3][2] < priority_queue[2][2]
    /\ cache_entries[priority_queue[3][1]][2] # last.ret

\* C7: get of a key that is not cached returns the supplied default (None
\* when none is given) and changes neither the entries nor the counters nor
\* the limit.
C7_GetAbsent ==
    [][\A k \in Keys, d \in Defaults :
        (k \notin DOMAIN cache_entries /\ get(k, d)) =>
            /\ last'.ret = d
            /\ UNCHANGED <<cache_entries, priority_queue, limit, hits, misses>>]_vars

\* C7 witness: a get of a key that is not cached returned a default other
\* than None while other keys were cached.
C7_Witness ==
    /\ last.op = "get" /\ last.ret \in Values
    /\ last.key \notin DOMAIN cache_entries
    /\ Len(priority_queue) >= 2
    /\ hits >= 1

\* C8 as stated: in every reachable state, add of a key that is not cached
\* increments misses by exactly 1 and leaves hits unchanged.
C8_Original ==
    [][\A k \in Keys, v \in Values, u \in BOOLEAN :
        (k \notin DOMAIN cache_entries /\ add(k, v, u)) =>
            (misses' = misses + 1 /\ hits' = hits)]_vars

\* C8 amended: in every reachable state whose limit is not 0, add of a key
\* that is not cached increments misses by exactly 1 and leaves hits
\* unchanged; while the limit is 0 it leaves both counters unchanged.
C8_MissOnInsert ==
    [][\A k \in Keys, v \in Values, u \in BOOLEAN :
        (k \notin DOMAIN cache_entries /\ add(k, v, u)) =>
            /\ hits' = hits
            /\ limit # IntLimit(0) => misses' = misses + 1
            /\ limit = IntLimit(0) => misses' = misses]_vars

\* C8 witness: an add stored a new key after the counters had both moved.
C8_Witness ==
    /\ last.op = "add" /\ last.ret = "True"
    /\ access_count(priority_queue, last.key) = 1
    /\ misses >= 2
    /\ hits >= 1

\* C9: add of a cached key with update=False returns False and changes
\* nothing, so the key keeps exactly one entry.
C9_AddPresentNoUpdate ==
    [][\A k \in Keys, v \in Values :
        (k \in DOMAIN cache_entries /\ add(k, v, FALSE)) =>
            /\ last'.ret = "False"
            /\ UNCHANGED <<cache_entries, priority_queue, limit, hits, misses>>
            /\ Cardinality({j \in 1..Len(priority_queue') :
                               priority_queue'[j][1] = k}) = 1]_vars

\* C9 witness: an add of a cached key was refused while the key held a value
\* and a count of its own.
C9_Witness ==
    /\ last.op = "add" /\ last.ret = "False"
    /\ last.key \in DOMAIN cache_entries
    /\ access_count(priority_queue, last.key) >= 2
    /\ Len(priority_queue) >= 2

\* C10: add of a cached key with update=True (limit not 0) returns True,
\* overwrites the value, adds exactly 1 to the access count and promotes the
\* key by the promotion rule, increments misses by exactly 1, leaves hits
\* and the length unchanged and evicts nothing.
C10_AddPresentUpdate ==
    [][\A k \in Keys, v \in Values :
        (k \in DOMAIN cache_entries /\ limit # IntLimit(0) /\ add(k, v, TRUE)) =>
            /\ last'.ret = "True"
            /\ cache_entries'[k][2] = v
            /\ Promoted(cache_entries, priority_queue,
                        cache_entries', priority_queue', k)
            /\ ValuesKept(cache_entries, cache_entries', k)
            /\ misses' = misses + 1
            /\ hits' = hits
            /\ limit' = limit
            /\ Len(priority_queue') = Len(priority_queue)
            /\ KeysOf(priority_queue') = KeysOf(priority_queue)
            /\ last'.evicted = NoneVal]_vars

\* C10 witness: an updating add on a full cache of limit 2 left its key at
\* the head with count 2, above an entry of count 1, and evicted nothing.
C10_Witness ==
    /\ last.op = "add" /\ last.ret = "True" /\ last.evicted = NoneVal
    /\ limit = IntLimit(2)
    /\ Len(priority_queue) = 2
    /\ priority_queue[1] = <<last.key, 2>>
    /\ priority_queue[2][2] = 1

\* C11: remove of a key that is not cached returns False and changes
\* nothing; remove of a cached key returns True, shortens the queue by exactly
\* one, leaves the key in neither structure, keeps every other entry's value,
\* count and relative order (entries behind the removed slot move left by
\* one and their ids are decremented), and leaves hits and misses unchanged.
C11_Remove ==
    [][\A k \in Keys : remove(k) =>
        IF k \notin DOMAIN cache_entries
        THEN /\ last'.ret = "False"
             /\ UNCHANGED <<cache_entries, priority_queue, limit, hits, misses>>
        ELSE LET i == PosOf(priority_queue, k)
             IN /\ last'.ret = "True"
                /\ Len(priority_queue') = Len(priority_queue) - 1
                /\ k \notin DOMAIN cache_entries'
                /\ k \notin KeysOf(priority_queue')
                /\ DOMAIN cache_entries' = (DOMAIN cache_entries) \ {k}
                /\ priority_queue' = Without(priority_queue, k)
                /\ \A j \in 1..(i - 1) :
                      /\ priority_queue'[j] = priority_queue[j]
                      /\ cache_entries'[priority_queue[j][1]]
                             = cache_entries[priority_queue[j][1]]
                /\ \A j \in (i + 1)..Len(priority_queue) :
                      /\ priority_queue'[j - 1] = priority_queue[j]
                      /\ cache_entries'[priority_queue[j][1]]
                             = <<cache_entries[priority_queue[j][1]][1] - 1,
                                 cache_entries[priority_queue[j][1]][2]>>
                /\ UNCHANGED <<limit, hits, misses>>]_vars

\* C11 witness: a remove took one entry out of a three-entry queue, and the
\* two entries left have different values and counts.
C11_Witness ==
    /\ last.op = "remove" /\ last.ret = "True"
    /\ Len(priority_queue) = 2
    /\ priority_queue[1][2] > priority_queue[2][2]
    /\ cache_entries[priority_queue[1][1]][2] # cache_entries[priority_queue[2][1]][2]
    /\ hits >= 1

\* C12: assigning an int limit n below the current size keeps exactly the
\* first n entries with their slots, values and counts, drops the others from
\* both structures and stores n (so limit = 0 empties the cache); assigning a
\* limit >= the current size, or None, drops nothing.
C12_ResizeDown ==
    [][\A l \in ValidLimits : SetLimitAccepted(l) =>
        LET n == IF l # NoneLimit /\ l.n < Len(priority_queue)
                 THEN l.n ELSE Len(priority_queue)
        IN /\ limit' = l
           /\ priority_queue' = SubSeq(priority_queue, 1, n)
           /\ DOMAIN cache_entries' = KeysOf(SubSeq(priority_queue, 1, n))
           /\ \A k \in DOMAIN cache_entries' : cache_entries'[k] = cache_entries[k]
           /\ (l = IntLimit(0)) => Len(priority_queue') = 0
           /\ UNCHANGED <<hits, misses>>]_vars

\* C12 witness: a limit of 1 was assigned and the one entry left is the most
\* used one; the counters show that three entries had been stored.
C12_Witness ==
    /\ last.op = "limit" /\ last.ret = NoneVal
    /\ limit = IntLimit(1)
    /\ Len(priority_queue) = 1
    /\ priority_queue[1][2] >= 2
    /\ misses >= 3

\* C13: assigning a negative int or a value that is neither an int nor None
\* raises LFUCacheException and leaves the limit, the entries and the counters
\* unchanged; no cache exists whose limit is such a value.
C13_InvalidLimit ==
    /\ [](limit = NoneLimit \/ (limit.tag = "int" /\ limit.n >= 0))
    /\ [][\A l \in {IntLimit(-1), StrLimit} : set_limit(l) =>
            /\ last'.ret = "LFUCacheException"
            /\ UNCHANGED <<cache_entries, priority_queue, limit, hits, misses>>]_vars
    /\ [][last'.ret = "LFUCacheException" =>
            UNCHANGED <<cache_entries, priority_queue, limit, hits, misses>>]_vars

\* C13 witness: an assignment to the limit was rejected on a cache that holds
\* entries and has counted hits and misses.
C13_Witness ==
    /\ last.op = "limit" /\ last.ret = "LFUCacheException"
    /\ Len(priority_queue) >= 2
    /\ limit = IntLimit(2)
    /\ hits >= 1

\* C14: assigning None stores None as the limit, from any previous limit;
\* while the limit is None every add of a key that is not cached returns
\* True, evicts nothing and lengthens the queue by exactly one.
C14_Unbounded ==
    /\ [][SetLimitAccepted(NoneLimit) =>
            (limit' = NoneLimit /\ priority_queue' = priority_queue)]_vars
    /\ [][\A k \in Keys, v \in Values, u \in BOOLEAN :
            (limit = NoneLimit /\ k \notin DOMAIN cache_entries /\ add(k, v, u)) =>
                /\ last'.ret = "True"
                /\ last'.evicted = NoneVal
                /\ Len(priority_queue') = Len(priority_queue) + 1
                /\ KeysOf(priority_queue') = KeysOf(priority_queue) \cup {k}
                /\ limit' = NoneLimit]_vars

\* C14 witness: with the limit None an add grew the queue beyond every int
\* limit the cache could have had before.
C14_Witness ==
    /\ limit = NoneLimit
    /\ last.op = "add" /\ last.ret = "True"
    /\ Len(priority_queue) > MaxLimit

\* C15: clear empties the index and the queue, so that no key is cached, and
\* leaves hits, misses and the limit as they were.
C15_Clear ==
    [][last'.op = "clear" =>
        /\ Len(priority_queue') = 0
        /\ DOMAIN cache_entries' = {}
        /\ \A k \in Keys : ~has_cache(cache_entries', k)
        /\ UNCHANGED <<hits, misses, limit>>]_vars

\* C15 witness: a clear left an empty cache whose counters and limit are not
\* the initial ones.
C15_Witness ==
    /\ last.op = "clear"
    /\ Len(priority_queue) = 0
    /\ hits >= 1
    /\ misses >= 2
    /\ limit = IntLimit(2)

\* C17: a key enters the queue only by an add of that key and with access
\* count 1, also when it had been cached before; while it stays queued each
\* step keeps its count or adds exactly 1 to it, and adds 1 only in a get of
\* that key or an add of that key that returned True; counts are always >= 1.
C17_CountLifecycle ==
    /\ [](\A j \in 1..Len(priority_queue) : priority_queue[j][2] >= 1)
    /\ [][\A k \in Keys :
            /\ (k \notin KeysOf(priority_queue) /\ k \in KeysOf(priority_queue')) =>
                  /\ access_count(priority_queue', k) = 1
                  /\ last'.op = "add" /\ last'.key = k /\ last'.ret = "True"
            /\ (k \in KeysOf(priority_queue) /\ k \in KeysOf(priority_queue')) =>
                  \/ access_count(priority_queue', k) = access_count(priority_queue, k)
                  \/ /\ access_count(priority_queue', k)
                            = access_count(priority_queue, k) + 1
                     /\ last'.key = k
                     /\ \/ last'.op = "get"
                        \/ last'.op = "add" /\ last'.ret = "True"]_vars

\* C17 witness: an add stored a key at count 1 as the only entry of an
\* unbounded cache that had stored entries and counted a hit before.
C17_Witness ==
    /\ last.op = "add" /\ last.ret = "True"
    /\ limit = NoneLimit
    /\ priority_queue = <<(<<last.key, 1>>)>>
    /\ misses = MaxMisses
    /\ hits >= 1

\* C18: hits and misses start at 0; a step adds exactly 1 to hits when it is
\* a get of a cached key and 0 otherwise, and exactly 1 to misses when it is
\* an add that returned True and 0 otherwise, so hits counts the gets that
\* found their key, misses the adds that returned True, and neither decreases.
C18_CounterAccounting ==
    /\ (last.op = "init" => (hits = 0 /\ misses = 0))
    /\ [][/\ hits' = hits + (IF last'.op = "get" /\ last'.key \in DOMAIN cache_entries
                             THEN 1 ELSE 0)
          /\ misses' = misses + (IF last'.op = "add" /\ last'.ret = "True"
                                 THEN 1 ELSE 0)]_vars

\* C18 witness: both counters have moved and the last step, a remove,
\* changed neither.
C18_Witness ==
    /\ last.op = "remove" /\ last.ret = "True"
    /\ hits = MaxHits
    /\ misses >= 3

(* ---------------------------- C16, C19: threads ------------------------ *)
\* The operations whose body is inside "with self._lock".
LockedOps == {"add", "get", "remove", "has_cache", "clear", "limit"}

\* Thread t is between the first acquire and the last release of its call.
holds(t) ==
    /\ thread[t].pc \notin {"idle", "lock", "len", "slice", "item"}
    /\ ~(thread[t].pc = "has_lock" /\ thread[t].op = "has_cache")

\* Where a locked operation reads or writes self._cache_entries[key].
UsesKey ==
    {"inc_lock", "inc_count", "inc_loop", "inc_swap", "inc_index",
     "inc_unlock", "add_value", "get_hit", "get_return", "remove_queue",
     "remove_index"}

\* Thread t is about to acquire the lock it already holds.
nested(t) ==
    \/ thread[t].pc \in {"rid_lock", "inc_lock"}
    \/ thread[t].pc = "has_lock" /\ thread[t].op # "has_cache"

\* C16 as stated: every public operation, len and retrieve included, is
\* atomic: none observes the index and the queue in disagreement, and none
\* fails on a key that vanished during the call.
C16_Original ==
    \A t \in Threads :
       thread[t].torn = NoneVal /\ thread[t].raised # "KeyError"

\* C16, amended: the lock serializes add, get, has_cache, remove, clear and
\* the limit assignment: at most one thread is inside any of them, the index
\* and the queue agree whenever the lock is free, and none of these
\* operations observes a disagreement left by another thread or fails on a
\* vanished key.  len and retrieve take no lock and are not covered.
C16_LockedOpsSerialized ==
    /\ \A t1, t2 \in Threads : holds(t1) /\ holds(t2) => t1 = t2
    /\ \A t \in Threads : holds(t) => lock.owner = t /\ lock.count > 0
    /\ lock.count = 0 => agree(cache_entries, priority_queue)
    /\ \A t \in Threads :
          /\ thread[t].torn \notin LockedOps
          /\ thread[t].pc \in UsesKey => thread[t].key \in DOMAIN cache_entries

\* One thread is in the middle of a mutation, with the index and the queue in
\* disagreement, while another one waits for the lock.
C16_Witness ==
    \E t1, t2 \in Threads :
       /\ t1 # t2
       /\ holds(t1)
       /\ ~agree(cache_entries, priority_queue)
       /\ thread[t2].pc \in {"lock", "has_lock"}
       /\ thread[t2].op \in LockedOps

\* C19: with threads calling add, get, remove, has_cache, clear and the limit
\* setter, every call returns and leaves the lock fully released; a nested
\* acquisition is always by the owner; the promotion loop makes at most
\* "slot" swaps and the truncation loop len - new_limit pops.
C19_EveryCallReturns ==
    /\ \A t \in Threads : (thread[t].pc # "idle") ~> (thread[t].pc = "idle")
    /\ []((\A t \in Threads : thread[t].pc = "idle") => lock = Unlocked)
    /\ [](\A t \in Threads : nested(t) => lock.owner = t /\ lock.count > 0)
    /\ [](\A t \in Threads :
            /\ thread[t].pc \in {"inc_loop", "inc_swap", "inc_index"} =>
                  /\ thread[t].queue_id >= 0
                  /\ thread[t].queue_id <= cache_entries[thread[t].key][1]
            /\ thread[t].pc = "inc_swap" => thread[t].queue_id >= 1
            /\ thread[t].pc = "limit_loop" =>
                  thread[t].excessive_entries
                     = len(priority_queue) - thread[t].arg.n
            /\ thread[t].pc = "limit_index" =>
                  /\ thread[t].excessive_entries > 0
                  /\ thread[t].excessive_entries - 1
                        = len(priority_queue) - thread[t].arg.n)

\* A thread is in the promotion loop, two acquisitions deep, while another
\* one waits for the lock.
C19_Witness ==
    \E t1, t2 \in Threads :
       /\ t1 # t2
       /\ thread[t1].pc = "inc_swap"
       /\ lock = [owner |-> t1, count |-> 2]
       /\ thread[t2].pc = "lock"

(* ---------------------------- C20: the memoizing wrapper --------------- *)
\* "func": the wrapped function, the same result for the same argument.
func(key) == IF key = "0" THEN "a" ELSE "b"

\* _make_key(args, kwargs, typed) for one positional str argument, which
\* functools returns as it is.
make_key(arg) == arg

\* The thread record after wrapper(arg) has returned result.
WrapperReturned(me, result) ==
    [Returned(me) EXCEPT !.op = me.op, !.key = me.key, !.value = result]

\* A thread calls the wrapped function: "key = _make_key(args, kwargs, typed)"
WrapperCall(t) ==
    /\ thread[t].pc = "idle" /\ thread[t].calls < MaxCalls
    /\ \E arg \in ThreadKeys :
          Goes(t, Calling(t, "wrapper", make_key(arg), NoneVal, FALSE,
                          NoneLimit, "wrapper_has"))

\* "if cache.has_cache(key):"
WrapperHas(t) ==
    /\ thread[t].pc = "wrapper_has"
    /\ Goes(t, [thread[t] EXCEPT
            !.found = has_cache(cache_entries, thread[t].key),
            !.pc = IF has_cache(cache_entries, thread[t].key)
                   THEN "wrapper_get" ELSE "wrapper_func"])

\* "return cache.get(key)"
WrapperGet(t) ==
    /\ thread[t].pc = "wrapper_get"
    /\ get(thread[t].key, NoneVal)
    /\ thread' = [thread EXCEPT ![t] = WrapperReturned(thread[t], last'.ret)]
    /\ UNCHANGED lock

\* "value = func(*args, **kwargs)"
WrapperFunc(t) ==
    /\ thread[t].pc = "wrapper_func"
    /\ Goes(t, [thread[t] EXCEPT !.value = func(thread[t].key),
                                 !.pc = "wrapper_add"])

\* "cache.add(key, value)", "return value"
WrapperAdd(t) ==
    /\ thread[t].pc = "wrapper_add"
    /\ add(thread[t].key, thread[t].value, FALSE)
    /\ thread' = [thread EXCEPT ![t] = WrapperReturned(thread[t], thread[t].value)]
    /\ UNCHANGED lock

\* A thread removes a key through wrapper.__cache__.
WrapperCacheRemove(t) ==
    /\ thread[t].pc = "idle" /\ thread[t].calls < MaxCalls
    /\ \E key \in ThreadKeys :
          /\ remove(key)
          /\ thread' = [thread EXCEPT ![t] =
                [Returned(thread[t]) EXCEPT !.op = "remove", !.calls = @ + 1]]
    /\ UNCHANGED lock

WrapperNext ==
    \E t \in Threads :
       \/ WrapperCall(t) \/ WrapperHas(t) \/ WrapperGet(t)
       \/ WrapperFunc(t) \/ WrapperAdd(t) \/ WrapperCacheRemove(t)

\* Threads calling one wrapped function; each cache operation is atomic.
SpecWrapper == Init /\ [][WrapperNext]_vars

\* C20: every call of the wrapped function returns what the function returns
\* for its argument, never the default None of get, also when other threads
\* call the wrapper or change its cache between has_cache and get.
C20_ReturnsFunctionResult ==
    \A t \in Threads :
       thread[t].op = "wrapper" /\ thread[t].pc = "idle" =>
          thread[t].value = func(thread[t].key)

====
